---- MODULE Spec2Model ----
(***************************************************************************)
(* Model of the relay upload of commands/zipline.js.                       *)
(*                                                                         *)
(* Spec              one transfer inside ziplinePartialUpload and          *)
(*                   sendPartialChunk.  The bytes of the source stream are *)
(*                   modelled by their positions 0 .. trueLength-1, so     *)
(*                   that a chunk is the sequence of stream positions it   *)
(*                   carries.  The control position `pc` follows the loops *)
(*                   of ziplinePartialUpload; the steps are finer than the *)
(*                   awaits of the code, which is sound for a single       *)
(*                   sequential transfer.                                  *)
(* DispatchSpec      the same transfer from the call of the dispatcher     *)
(*                   (ziplineUploadFromUrl / ziplineAnonUploadFromUrl) on. *)
(* MessageUploadSpec handleMessageUpload: the dispatcher called with the   *)
(*                   handler's onProgress callback, and the edits of the   *)
(*                   interaction reply.                                    *)
(* MultiTransferSpec the stage-send-release turn of the chunk loop for     *)
(*                   transfers that run concurrently and share the staging *)
(*                   directory.                                            *)
(***************************************************************************)
EXTENDS Integers, Sequences, FiniteSets, TLC

\* ---------------------------------------------------------------- bounds
MaxLen == 4          \* largest true length of the source stream
MaxDeclared == 5     \* largest declared content length
MaxChunkSize == 2    \* largest configured CHUNK_SIZE
MaxFrag == 3         \* largest fragment the stream iterator yields
MaxThreshold == 2    \* largest configured CHUNK_THRESHOLD
MaxReplyLen == 2     \* largest true length of a transfer started by handleMessageUpload
MaxClock == 2        \* largest value of Date.now() while chunks are staged
MaxStaged == 2       \* most chunks one of the concurrent transfers stages
MaxCommands == 2     \* most /zipline commands issued in one run

\* ------------------------------------------------------------- constants
NoId == "none"       \* let partialIdentifier = null
SessionIds == {"id1", "id2"}

\* A response of the destination service, or a failure to get one.
\*   status 0    : fetch rejected (network failure) or a local failure
\*                 inside sendPartialChunk
\*   files       : number of entries of body.files (0: absent or empty)
\*   partialIdentifier : body.partialIdentifier, NoId when absent
\*   partialSuccessFalse : body.partialSuccess === false
Statuses == {0, 200, 500}
Responses ==
    { r \in [status : Statuses, files : {0, 1},
             partialIdentifier : {NoId} \cup SessionIds,
             partialSuccessFalse : BOOLEAN] :
        r.status = 0 => (r.files = 0 /\ r.partialIdentifier = NoId
                         /\ ~r.partialSuccessFalse) }
NoResponse ==
    [status |-> 0, files |-> 0, partialIdentifier |-> NoId, partialSuccessFalse |-> FALSE]

\* A content-length header of a HEAD or GET response of the source: absent,
\* not a number, or the number n.
Headers ==
    {[kind |-> "absent", n |-> 0], [kind |-> "text", n |-> 0]}
      \cup {[kind |-> "number", n |-> k] : k \in 0..MaxDeclared}

\* The dispatcher has no frame: before it is called and after it has handed
\* the transfer to ziplinePartialUpload.
NoDispatch ==
    [threshold |-> 0, head |-> [kind |-> "absent", n |-> 0],
     get |-> [kind |-> "absent", n |-> 0], length |-> 0]

VARIABLES
    dispatch,           \* the dispatcher's frame: CHUNK_THRESHOLD, the two
                        \* content-length headers, const contentLength
    route,              \* "none", "Chunked" or "SingleShot"
    openStreams,        \* download streams opened and not yet consumed or closed
    CHUNK_SIZE,         \* const CHUNK_SIZE
    contentLength,      \* parameter contentLength (the declared length)
    trueLength,         \* number of bytes the source stream really holds
    streamPos,          \* bytes the iterator has yielded so far
    largestFragment,    \* size of the largest fragment yielded so far
    done,               \* const { value, done } = await iterator.next()
    accumulatedChunks,  \* let accumulatedChunks = []
    accumulatedLen,     \* let accumulatedLen = 0
    buffer,             \* let buffer = Buffer.concat(accumulatedChunks)
    sending,            \* const sending = buffer.slice(0, amountToSend)
    uploadedBytes,      \* let uploadedBytes = 0
    partialIdentifier,  \* let partialIdentifier = null
    staged,             \* staged chunk files on disk (by request number)
    released,           \* staged files that fs.unlinkSync removed, in order
    requests,           \* chunk requests sent, in order
    responses,          \* outcome of each chunk request, in order
    progress,           \* calls of onProgress, in order
    result,             \* value returned / error thrown
    pc,                 \* position in ziplinePartialUpload
    edits,              \* handleMessageUpload: interaction.editReply calls issued, in order
    applied,            \* edits (by their number) that have taken effect, in order
    handled,            \* calls of onProgress the handler's callback has run
    lastUpdate,         \* let lastUpdate = 0 (0: never set, 1: set to some Date.now())
    handlerPc,          \* position in handleMessageUpload
    clock,              \* Date.now()
    staging,            \* per concurrent transfer: position, tmpChunkPath, chunks done
    disk,               \* the staging directory: the transfer that last wrote each name
    userTokens,         \* let userTokens: the stored token of each Discord user
    userIds,            \* let userIds: the bot user id of each Discord user (0: none)
    commands            \* the /zipline commands issued, each with its progress

vars == <<dispatch, route, openStreams, CHUNK_SIZE, contentLength, trueLength, streamPos, largestFragment, done, accumulatedChunks,
          accumulatedLen, buffer, sending, uploadedBytes, partialIdentifier, staged,
          released, requests, responses, progress, result, pc,
          edits, applied, handled, lastUpdate, handlerPc, clock, staging, disk,
          userTokens, userIds, commands>>

\* The state of handleMessageUpload's reply, and that of the staging directory
\* shared by concurrent transfers.
replyVars == <<edits, applied, handled, lastUpdate, handlerPc>>
stagingVars == <<clock, staging, disk>>
commandVars == <<userTokens, userIds, commands>>
transferVars ==
    <<dispatch, route, openStreams, CHUNK_SIZE, contentLength, trueLength, streamPos,
      largestFragment, done, accumulatedChunks, accumulatedLen, buffer, sending,
      uploadedBytes, partialIdentifier, staged, released, requests, responses, progress,
      result, pc>>

\* ------------------------------------------------------ pure helpers
Min(a, b) == IF a < b THEN a ELSE b

\* Buffer.concat(list): the bytes of the buffers of the list, in order.
RECURSIVE BufferConcat(_)
BufferConcat(list) ==
    IF list = <<>> THEN <<>> ELSE Head(list) \o BufferConcat(Tail(list))

\* buffer.slice(start, end) with 0-based start and exclusive end.
BufferSlice(b, start, end) == SubSeq(b, start + 1, Min(end, Len(b)))

\* The next fragment of f bytes of the stream: positions streamPos .. streamPos+f-1.
Fragment(pos, f) == [i \in 1..f |-> pos + i - 1]

\* Variant of ResOk that only notices a missing response.
ResOkAnyStatus(status) == status # 0

\* res.ok of node-fetch
ResOk(status) == status >= 200 /\ status <= 299

\* ------------------------------------------ ziplinePartialUpload, pure parts
\* const isRefEmpty = (buffer.length === 0 && accumulatedChunks.length === 0 && done)
IsRefEmpty(buf, chunks, d) == Len(buf) = 0 /\ Len(chunks) = 0 /\ d

\* Variant of EffectiveContentLength that keeps the declared length.
EffectiveContentLengthDeclared(declared, refEmpty, uploaded, sendingLen) == declared

\* let effectiveContentLength = contentLength;
\* if (isRefEmpty) effectiveContentLength = uploadedBytes + sending.length;
EffectiveContentLength(declared, refEmpty, uploaded, sendingLen) ==
    IF refEmpty THEN uploaded + sendingLen ELSE declared

\* Variant of IsLast that wants more bytes than the effective length.
IsLastBeyondLength(uploaded, sendingLen, effective) == uploaded + sendingLen > effective

\* const isLast = (uploadedBytes + sending.length) >= effectiveContentLength
IsLast(uploaded, sendingLen, effective) == uploaded + sendingLen >= effective

\* Variant of AmountToSend that forgets the cap at CHUNK_SIZE.
AmountToSendUncapped(buf, size) == Len(buf)

\* const amountToSend = Math.min(buffer.length, CHUNK_SIZE)
AmountToSend(buf, size) == Min(Len(buf), size)

\* const sending = buffer.slice(0, amountToSend)
Sending(buf, size) == BufferSlice(buf, 0, AmountToSend(buf, size))

\* const remainder = buffer.slice(amountToSend)
Remainder(buf, size) == BufferSlice(buf, AmountToSend(buf, size), Len(buf))

\* Variant of OuterCond that starts slicing only once the stream has ended.
OuterCondOnlyWhenDone(len, size, d) == d /\ len > 0

\* while (accumulatedLen >= CHUNK_SIZE || (done && accumulatedLen > 0))
OuterCond(len, size, d) == len >= size \/ (d /\ len > 0)

\* while (buffer.length >= CHUNK_SIZE || (done && buffer.length > 0))
InnerCond(buf, size, d) == Len(buf) >= size \/ (d /\ Len(buf) > 0)

\* Variant of NextPartialIdentifier that never records the identifier.
NextPartialIdentifierDropped(current, resp) == current

\* if (resp && resp.partialIdentifier) partialIdentifier = resp.partialIdentifier
NextPartialIdentifier(current, resp) ==
    IF resp.partialIdentifier # NoId THEN resp.partialIdentifier ELSE current

\* if (resp && resp.files && resp.files.length > 0)
HasFiles(resp) == resp.files > 0

\* Variant of ChunkRequest whose range end is one byte too far.
ChunkRequestRangeEndOffByOne(file, effective, ident, isLast, uploaded) ==
    [ rangeStart |-> uploaded,
      rangeEnd   |-> uploaded + Len(file),
      rangeTotal |-> effective,
      pContentLength |-> effective,
      lastchunk  |-> isLast,
      identifier |-> ident,
      data       |-> file ]

\* --------------------------------------------------------- sendPartialChunk
\* The request sendPartialChunk builds for the staged file `file`.
\*   chunkLen = fs.statSync(filePath).size
\*   'Content-Range': `bytes ${uploadedBytes}-${uploadedBytes + chunkLen - 1}/${contentLength}`
\*   'x-zipline-p-content-length': String(contentLength)
\*   'x-zipline-p-lastchunk': isLast ? 'true' : 'false'
\*   if (partialIdentifier) headers['x-zipline-p-identifier'] = partialIdentifier
ChunkRequest(file, effective, ident, isLast, uploaded) ==
    [ rangeStart |-> uploaded,
      rangeEnd   |-> uploaded + Len(file) - 1,
      rangeTotal |-> effective,
      pContentLength |-> effective,
      lastchunk  |-> isLast,
      identifier |-> ident,
      data       |-> file ]

\* ------------------------------------------------------------------ state
Result(kind, resp, error) == [kind |-> kind, resp |-> resp, error |-> error]

\* ----------------------------------------- initial reply and staging state
\* The concurrently running transfers that share the staging directory.
Transfers == {1, 2}

\* Math.random().toString(36) without its leading "0.": the base-36 digits of
\* the random number, here five leading digits and up to one more.
RandomDigits ==
    { lead \o rest : lead \in {<<"a", "a", "a", "a", "a">>, <<"b", "b", "b", "b", "b">>},
                     rest \in {<<>>, <<"a">>, <<"b">>} }

\* Math.random().toString(36).substring(7): what is left of the digits after
\* "0." and the first five digits.
RandomSuffix(digits) == SubSeq(digits, 6, Len(digits))

\* `tmp_chunk_${Date.now()}_${Math.random().toString(36).substring(7)}.bin`
TmpChunkPath(now, digits) == <<now, RandomSuffix(digits)>>

NoPath == <<>>

\* No handler is waiting for the transfer.
ReplyIdle ==
    /\ edits = <<>>
    /\ applied = <<>>
    /\ handled = 0
    /\ lastUpdate = 0
    /\ handlerPc = "none"

\* No transfer has staged a chunk and the staging directory is empty.
StagingIdle ==
    /\ clock = 0
    /\ staging = [t \in Transfers |-> [pc |-> "idle", path |-> NoPath, chunks |-> 0]]
    /\ disk = {}

\* The Discord users that talk to the bot.
Users == {"u1", "u2"}

\* userTokens[userId] when the user has stored no token.
NoToken == "none"

\* No /zipline command has been issued and nothing is stored.
CommandsIdle ==
    /\ userTokens = [u \in Users |-> NoToken]
    /\ userIds = [u \in Users |-> 0]
    /\ commands = <<>>

\* The state in which ziplinePartialUpload is entered: the dispatcher has
\* routed the transfer to it with a declared length > 0 and has left its own
\* GET response open.
Init ==
    /\ dispatch = NoDispatch
    /\ route = "Chunked"
    /\ openStreams = 1
    /\ CHUNK_SIZE \in 1..MaxChunkSize
    /\ contentLength \in 1..MaxDeclared
    /\ trueLength \in 0..MaxLen
    /\ streamPos = 0
    /\ largestFragment = 0
    /\ done = FALSE
    /\ accumulatedChunks = <<>>
    /\ accumulatedLen = 0
    /\ buffer = <<>>
    /\ sending = <<>>
    /\ uploadedBytes = 0
    /\ partialIdentifier = NoId
    /\ staged = {}
    /\ released = <<>>
    /\ requests = <<>>
    /\ responses = <<>>
    /\ progress = <<>>
    /\ result = Result("none", NoResponse, "")
    /\ pc = "fetch"
    /\ ReplyIdle
    /\ StagingIdle
    /\ CommandsIdle

Throw(error) ==
    /\ pc' = "thrown"
    /\ result' = Result("error", NoResponse, error)

\* const dlRes = await fetch(fileUrl); if (!dlRes.ok) throw ...
Fetch ==
    /\ pc = "fetch"
    /\ UNCHANGED <<replyVars, stagingVars, commandVars>>
    /\ \E ok \in BOOLEAN :
         IF ok THEN pc' = "read" /\ UNCHANGED result
               ELSE Throw("download")
    /\ openStreams' = openStreams + 1
    /\ UNCHANGED <<dispatch, route, CHUNK_SIZE, contentLength, trueLength, streamPos, largestFragment, done,
                   accumulatedChunks, accumulatedLen, buffer, sending, uploadedBytes,
                   partialIdentifier, staged, requests, released, responses, progress>>

\* const { value, done } = await iterator.next() yielding a fragment;
\* accumulatedChunks.push(Buffer.from(value)); accumulatedLen += value.length
IteratorNextValue ==
    /\ pc = "read"
    /\ UNCHANGED <<replyVars, stagingVars, commandVars>>
    /\ streamPos < trueLength
    /\ \E f \in 1..Min(MaxFrag, trueLength - streamPos) :
         /\ accumulatedChunks' = Append(accumulatedChunks, Fragment(streamPos, f))
         /\ accumulatedLen' = accumulatedLen + f
         /\ streamPos' = streamPos + f
         /\ largestFragment' = IF f > largestFragment THEN f ELSE largestFragment
    /\ done' = FALSE
    /\ pc' = "outer"
    /\ UNCHANGED <<dispatch, route, openStreams, CHUNK_SIZE, contentLength, trueLength, buffer, sending, uploadedBytes,
                   partialIdentifier, staged, requests, released, responses, progress, result>>

\* await iterator.next() at the end of the stream: { value: undefined, done: true }
IteratorNextDone ==
    /\ pc = "read"
    /\ UNCHANGED <<replyVars, stagingVars, commandVars>>
    /\ streamPos = trueLength
    /\ done' = TRUE
    /\ pc' = "outer"
    /\ openStreams' = openStreams - 1
    /\ UNCHANGED <<dispatch, route, CHUNK_SIZE, contentLength, trueLength, streamPos, largestFragment, accumulatedChunks,
                   accumulatedLen, buffer, sending, uploadedBytes, partialIdentifier,
                   staged, requests, released, responses, progress, result>>

\* await iterator.next() rejects (the download stream fails)
IteratorNextError ==
    /\ pc = "read"
    /\ UNCHANGED <<replyVars, stagingVars, commandVars>>
    /\ streamPos < trueLength
    /\ Throw("stream")
    /\ openStreams' = openStreams - 1
    /\ UNCHANGED <<dispatch, route, CHUNK_SIZE, contentLength, trueLength, streamPos, largestFragment, done,
                   accumulatedChunks, accumulatedLen, buffer, sending, uploadedBytes,
                   partialIdentifier, staged, requests, released, responses, progress>>

\* The test of the outer while loop; on exit `if (done) break` and
\* `return { partialSuccess: true }`.
OuterLoop ==
    /\ pc = "outer"
    /\ UNCHANGED <<replyVars, stagingVars, commandVars>>
    /\ IF OuterCond(accumulatedLen, CHUNK_SIZE, done)
         THEN /\ buffer' = BufferConcat(accumulatedChunks)
              /\ accumulatedChunks' = <<>>
              /\ accumulatedLen' = 0
              /\ pc' = "inner"
              /\ UNCHANGED result
         ELSE /\ UNCHANGED <<buffer, accumulatedChunks, accumulatedLen>>
              /\ IF done
                   THEN /\ pc' = "returned"
                        /\ result' = Result("partialSuccessTrue", NoResponse, "")
                   ELSE /\ pc' = "read"
                        /\ UNCHANGED result
    /\ UNCHANGED <<dispatch, route, openStreams, CHUNK_SIZE, contentLength, trueLength, streamPos, largestFragment, done, sending,
                   uploadedBytes, partialIdentifier, staged, requests, released, responses, progress>>

\* Variant of AwaitSendPartialChunk: the call is not awaited and the loop goes on.
SendPartialChunkNotAwaited == "inner"

\* const resp = await sendPartialChunk(...): the loop is suspended until the
\* outcome of the request is known.
AwaitSendPartialChunk == "sending"

\* One turn of the inner while loop that slices a chunk, writes it to disk and
\* calls sendPartialChunk.
InnerLoopSend ==
    /\ pc = "inner"
    /\ UNCHANGED <<replyVars, stagingVars, commandVars>>
    /\ InnerCond(buffer, CHUNK_SIZE, done)
    /\ IF ~done /\ Len(buffer) < CHUNK_SIZE
         THEN \* push remainder back and break
              /\ accumulatedChunks' = Append(accumulatedChunks, buffer)
              /\ accumulatedLen' = accumulatedLen + Len(buffer)
              /\ buffer' = <<>>
              /\ pc' = "outer"
              /\ UNCHANGED <<sending, staged, requests>>
         ELSE LET snd == Sending(buffer, CHUNK_SIZE)
                  rem == Remainder(buffer, CHUNK_SIZE)
                  refEmpty == IsRefEmpty(rem, accumulatedChunks, done)
                  effective == EffectiveContentLength(contentLength, refEmpty,
                                                      uploadedBytes, Len(snd))
                  isLast == IsLast(uploadedBytes, Len(snd), effective)
              IN  /\ sending' = snd
                  /\ buffer' = rem
                  /\ staged' = staged \cup {Len(requests) + 1}
                  /\ requests' = Append(requests,
                        ChunkRequest(snd, effective, partialIdentifier, isLast,
                                     uploadedBytes))
                  /\ pc' = AwaitSendPartialChunk
                  /\ UNCHANGED <<accumulatedChunks, accumulatedLen>>
    /\ UNCHANGED <<dispatch, route, openStreams, CHUNK_SIZE, contentLength, trueLength, streamPos, largestFragment, done, uploadedBytes,
                   partialIdentifier, released, responses, progress, result>>

\* fs.writeFileSync(tmpChunkPath, sending) throws: outside the try, the error
\* propagates; a partly written file may stay behind.
InnerLoopWriteFail ==
    /\ pc = "inner"
    /\ UNCHANGED <<replyVars, stagingVars, commandVars>>
    /\ InnerCond(buffer, CHUNK_SIZE, done)
    /\ ~(~done /\ Len(buffer) < CHUNK_SIZE)
    /\ sending' = Sending(buffer, CHUNK_SIZE)
    /\ buffer' = Remainder(buffer, CHUNK_SIZE)
    /\ \E left \in BOOLEAN :
         staged' = IF left THEN staged \cup {Len(requests) + 1} ELSE staged
    /\ Throw("write")
    /\ UNCHANGED <<dispatch, route, openStreams, CHUNK_SIZE, contentLength, trueLength, streamPos, largestFragment, done,
                   accumulatedChunks, accumulatedLen, uploadedBytes, partialIdentifier,
                   requests, released, responses, progress>>

\* The inner while loop ends: if (buffer.length > 0) push the remainder back.
InnerLoopExit ==
    /\ pc = "inner"
    /\ UNCHANGED <<replyVars, stagingVars, commandVars>>
    /\ ~InnerCond(buffer, CHUNK_SIZE, done)
    /\ IF Len(buffer) > 0
         THEN /\ accumulatedChunks' = Append(accumulatedChunks, buffer)
              /\ accumulatedLen' = accumulatedLen + Len(buffer)
         ELSE UNCHANGED <<accumulatedChunks, accumulatedLen>>
    /\ buffer' = <<>>
    /\ pc' = "outer"
    /\ UNCHANGED <<dispatch, route, openStreams, CHUNK_SIZE, contentLength, trueLength, streamPos, largestFragment, done, sending,
                   uploadedBytes, partialIdentifier, staged, requests, released, responses,
                   progress, result>>

\* Variant of Unlink that never removes the file.
UnlinkSkipped(files, name, ok) == files

\* fs.unlinkSync(tmpChunkPath): the file is removed, or stays when the call throws.
Unlink(files, name, ok) == IF ok THEN files \ {name} ELSE files

\* Variant of IsPartialFailure that lets the loop go on.
IsPartialFailureIgnored(resp) == FALSE

\* if (resp && resp.partialSuccess === false) throw ...
IsPartialFailure(resp) == resp.partialSuccessFalse

\* Variant of AdvanceUploaded that counts a full chunk whatever was sent.
AdvanceUploadedByChunkSize(uploaded, sendingLen) == uploaded + CHUNK_SIZE

\* uploadedBytes += sending.length
AdvanceUploaded(uploaded, sendingLen) == uploaded + sendingLen

\* Variant of OnProgress with its arguments in the other order.
OnProgressTotalFirst(uploaded, declared) == <<declared, uploaded>>

\* if (onProgress) onProgress(uploadedBytes, contentLength): the arguments of
\* the call.
OnProgress(uploaded, declared) == <<uploaded, declared>>

\* throw new Error(`Partial upload failed ${res.status}: ${txt}`): the error
\* carries the status and the raw body of the response.
ThrowChunk(resp) ==
    /\ pc' = "thrown"
    /\ result' = Result("error", resp, "chunk")

\* The outcome of `await sendPartialChunk(...)` and the rest of that turn of the
\* inner loop: the try block, its finally, and the statements after it.
\*   resp : the response of the service (status 0: no response, the call threw)
\*   del1 : whether fs.unlinkSync inside the try (files returned) succeeds
\*   del2 : whether fs.unlinkSync inside the finally succeeds
ChunkOutcome(resp, del1, del2) ==
    LET name == Len(requests)
        afterTry == IF ResOk(resp.status) /\ HasFiles(resp)
                      THEN Unlink(staged, name, del1)
                      ELSE staged
        \* finally { if (fs.existsSync(tmpChunkPath)) fs.unlinkSync(tmpChunkPath); }
        afterFinally == IF name \in afterTry THEN Unlink(afterTry, name, del2)
                                             ELSE afterTry
        finallyThrows == name \in afterTry /\ ~del2
    IN  /\ pc = "sending"
        /\ UNCHANGED <<replyVars, stagingVars, commandVars>>
        /\ responses' = Append(responses, resp)
        /\ staged' = afterFinally
        /\ released' = (IF name \in staged /\ name \notin afterTry
                          THEN Append(released, name) ELSE released)
                       \o (IF name \in afterTry /\ name \notin afterFinally
                             THEN <<name>> ELSE <<>>)
        /\ IF ~ResOk(resp.status)
             THEN \* sendPartialChunk throws
                  /\ IF finallyThrows THEN Throw("unlink") ELSE ThrowChunk(resp)
                  /\ UNCHANGED <<partialIdentifier, uploadedBytes, progress, sending>>
             ELSE IF HasFiles(resp)
             THEN /\ IF del1
                       THEN /\ pc' = "returned"
                            /\ result' = Result("response", resp, "")
                       ELSE Throw("unlink")
                  /\ UNCHANGED <<partialIdentifier, uploadedBytes, progress, sending>>
             ELSE /\ partialIdentifier' = NextPartialIdentifier(partialIdentifier, resp)
                  /\ IF IsPartialFailure(resp)
                       THEN /\ Throw(IF finallyThrows THEN "unlink"
                                                      ELSE "partialSuccessFalse")
                            /\ UNCHANGED <<uploadedBytes, progress, sending>>
                       ELSE IF finallyThrows
                       THEN /\ Throw("unlink")
                            /\ UNCHANGED <<uploadedBytes, progress, sending>>
                       ELSE \* uploadedBytes += sending.length; onProgress(...)
                            /\ uploadedBytes' = AdvanceUploaded(uploadedBytes, Len(sending))
                            /\ progress' = Append(progress,
                                  OnProgress(AdvanceUploaded(uploadedBytes, Len(sending)),
                                             contentLength))
                            /\ sending' = <<>>
                            /\ pc' = "inner"
                            /\ UNCHANGED result
        /\ UNCHANGED <<dispatch, route, openStreams, CHUNK_SIZE, contentLength, trueLength, streamPos, largestFragment, done,
                       accumulatedChunks, accumulatedLen, buffer, requests>>

Response == \E resp \in Responses, del1, del2 \in BOOLEAN : ChunkOutcome(resp, del1, del2)

Next ==
    \/ Fetch
    \/ IteratorNextValue
    \/ IteratorNextDone
    \/ IteratorNextError
    \/ OuterLoop
    \/ InnerLoopSend
    \/ InnerLoopWriteFail
    \/ InnerLoopExit
    \/ Response

Spec == Init /\ [][Next]_vars

\* ------------------------- ziplineUploadFromUrl / ziplineAnonUploadFromUrl
\* parseInt(res.headers.get('content-length') || '0', 10) || 0
ParseContentLength(h) == IF h.kind = "number" THEN h.n ELSE 0

\* const contentLength = contentLengthHead || parseInt(dlRes.headers.get(...)) || 0
DeclaredLength(head, get) ==
    IF ParseContentLength(head) # 0 THEN ParseContentLength(head)
                                    ELSE ParseContentLength(get)

\* Variant of RouteChunked that sends a length equal to the threshold single-shot.
RouteChunkedAboveThreshold(len, threshold) == len > threshold /\ len > 0

\* if (contentLength >= CHUNK_THRESHOLD && contentLength > 0)
RouteChunked(len, threshold) == len >= threshold /\ len > 0

DispatchInit ==
    /\ \E t \in 1..MaxThreshold : dispatch = [NoDispatch EXCEPT !.threshold = t]
    /\ route = "none"
    /\ openStreams = 0
    /\ CHUNK_SIZE \in 1..MaxChunkSize
    /\ contentLength = 0
    /\ trueLength \in 0..MaxLen
    /\ streamPos = 0
    /\ largestFragment = 0
    /\ done = FALSE
    /\ accumulatedChunks = <<>>
    /\ accumulatedLen = 0
    /\ buffer = <<>>
    /\ sending = <<>>
    /\ uploadedBytes = 0
    /\ partialIdentifier = NoId
    /\ staged = {}
    /\ released = <<>>
    /\ requests = <<>>
    /\ responses = <<>>
    /\ progress = <<>>
    /\ result = Result("none", NoResponse, "")
    /\ pc = "dispatch"
    /\ ReplyIdle
    /\ StagingIdle
    /\ CommandsIdle

\* The dispatcher up to its routing decision.
\*   anon, configured : ziplineAnonUploadFromUrl is the entry point, and whether
\*                      the guest instance and token are configured
\*   headOk           : whether fetch(fileUrl, { method: 'HEAD' }) resolves
\*   getOutcome       : fetch(fileUrl) rejects, or resolves with dlRes.ok or not
\*   head, get        : the content-length headers of the two responses
Dispatch(anon, configured, headOk, head, getOutcome, get) ==
    /\ pc = "dispatch"
    /\ UNCHANGED <<replyVars, stagingVars, commandVars>>
    /\ IF (anon /\ ~configured) \/ ~headOk \/ getOutcome = "reject"
         THEN /\ Throw(IF anon /\ ~configured THEN "config" ELSE "download")
              /\ UNCHANGED <<dispatch, route, openStreams>>
         ELSE IF getOutcome = "notok"
         THEN /\ Throw("download")
              /\ openStreams' = openStreams + 1
              /\ UNCHANGED <<dispatch, route>>
         ELSE /\ dispatch' = [dispatch EXCEPT !.head = head, !.get = get,
                                              !.length = DeclaredLength(head, get)]
              /\ route' = IF RouteChunked(DeclaredLength(head, get), dispatch.threshold)
                            THEN "Chunked" ELSE "SingleShot"
              /\ openStreams' = openStreams + 1
              /\ pc' = "routed"
              /\ UNCHANGED result
    /\ UNCHANGED <<CHUNK_SIZE, contentLength, trueLength, streamPos, largestFragment, done,
                   accumulatedChunks, accumulatedLen, buffer, sending, uploadedBytes,
                   partialIdentifier, staged, released, requests, responses, progress>>

\* return ziplinePartialUpload({ ..., contentLength, ... }): the dispatcher's
\* frame ends; its GET response dlRes is neither read nor closed.
EnterPartialUpload ==
    /\ pc = "routed"
    /\ UNCHANGED <<replyVars, stagingVars, commandVars>>
    /\ route = "Chunked"
    /\ contentLength' = dispatch.length
    /\ dispatch' = NoDispatch
    /\ pc' = "fetch"
    /\ UNCHANGED <<route, openStreams, CHUNK_SIZE, trueLength, streamPos, largestFragment,
                   done, accumulatedChunks, accumulatedLen, buffer, sending, uploadedBytes,
                   partialIdentifier, staged, released, requests, responses, progress,
                   result>>

\* The single-shot path: dlRes.body is piped to a temporary file, which is
\* posted to /api/upload; the parsed response is returned, or an error thrown.
SingleShotUpload ==
    /\ pc = "routed"
    /\ UNCHANGED <<replyVars, stagingVars, commandVars>>
    /\ route = "SingleShot"
    /\ openStreams' = openStreams - 1
    /\ dispatch' = NoDispatch
    /\ \E outcome \in {"ok", "stream", "upload"} :
         IF outcome = "ok"
           THEN /\ pc' = "returned"
                /\ result' = Result("singleShot", NoResponse, "")
           ELSE Throw(outcome)
    /\ UNCHANGED <<route, CHUNK_SIZE, contentLength, trueLength, streamPos, largestFragment,
                   done, accumulatedChunks, accumulatedLen, buffer, sending, uploadedBytes,
                   partialIdentifier, staged, released, requests, responses, progress>>

DispatchNext ==
    \/ /\ pc = "dispatch"
       /\ \E anon, configured, headOk \in BOOLEAN, head, get \in Headers,
             getOutcome \in {"reject", "notok", "ok"} :
             Dispatch(anon, configured, headOk, head, getOutcome, get)
    \/ EnterPartialUpload
    \/ SingleShotUpload
    \/ Next

\* A transfer from the call of the dispatcher on.
DispatchSpec == DispatchInit /\ [][DispatchNext]_vars

\* ------------------------------------ concurrent transfers and staged files
\* The stage-send-release turn of the inner loop of ziplinePartialUpload, for
\* each of the transfers that run concurrently in the process and share the
\* directory './'.  Of a transfer only its position in that turn, its
\* tmpChunkPath and the number of chunks it has done are kept.

\* fs.writeFileSync(path, data) by transfer t: creates the file or replaces it.
WriteFile(files, path, t) ==
    {f \in files : f.path # path} \cup {[path |-> path, owner |-> t]}

\* fs.existsSync(path)
ExistsFile(files, path) == \E f \in files : f.path = path

\* fs.unlinkSync(path): removes the file of that name, whoever wrote it.
UnlinkFile(files, path) == {f \in files : f.path # path}

MultiTransferInit ==
    /\ dispatch = NoDispatch
    /\ route = "Chunked"
    /\ openStreams = 1
    /\ CHUNK_SIZE = 1
    /\ contentLength = 1
    /\ trueLength = 0
    /\ streamPos = 0
    /\ largestFragment = 0
    /\ done = FALSE
    /\ accumulatedChunks = <<>>
    /\ accumulatedLen = 0
    /\ buffer = <<>>
    /\ sending = <<>>
    /\ uploadedBytes = 0
    /\ partialIdentifier = NoId
    /\ staged = {}
    /\ released = <<>>
    /\ requests = <<>>
    /\ responses = <<>>
    /\ progress = <<>>
    /\ result = Result("none", NoResponse, "")
    /\ pc = "fetch"
    /\ ReplyIdle
    /\ StagingIdle
    /\ CommandsIdle

\* Time passes between two calls of Date.now().
Tick ==
    /\ clock < MaxClock
    /\ clock' = clock + 1
    /\ UNCHANGED <<staging, disk, transferVars, replyVars, commandVars>>

\* Transfer t slices a chunk and stages it: tmpChunkPath is made from
\* Date.now() and Math.random(), and fs.writeFileSync writes the file (or
\* throws, which ends the transfer).
StageChunk(t, digits, wrote) ==
    /\ staging[t].pc = "idle"
    /\ staging[t].chunks < MaxStaged
    /\ IF wrote
         THEN /\ staging' = [staging EXCEPT ![t].pc = "sending",
                                            ![t].path = TmpChunkPath(clock, digits)]
              /\ disk' = WriteFile(disk, TmpChunkPath(clock, digits), t)
         ELSE /\ staging' = [staging EXCEPT ![t].pc = "ended"]
              /\ UNCHANGED disk
    /\ UNCHANGED <<clock, transferVars, replyVars, commandVars>>

\* The exchange of transfer t ends and its finally block runs:
\* if (fs.existsSync(tmpChunkPath)) fs.unlinkSync(tmpChunkPath).  After an
\* acknowledgement and a deletion that did not throw the loop goes on.
ReleaseChunk(t, acked, del) ==
    /\ staging[t].pc = "sending"
    /\ disk' = IF ExistsFile(disk, staging[t].path) /\ del
                 THEN UnlinkFile(disk, staging[t].path)
                 ELSE disk
    /\ staging' = [staging EXCEPT
                     ![t].pc = IF acked /\ (del \/ ~ExistsFile(disk, staging[t].path))
                                 THEN "idle" ELSE "ended",
                     ![t].path = NoPath,
                     ![t].chunks = @ + 1]
    /\ UNCHANGED <<clock, transferVars, replyVars, commandVars>>

MultiTransferNext ==
    \/ Tick
    \/ \E t \in Transfers, digits \in RandomDigits, wrote \in BOOLEAN :
          StageChunk(t, digits, wrote)
    \/ \E t \in Transfers, acked, del \in BOOLEAN : ReleaseChunk(t, acked, del)

\* Two transfers staging and releasing chunks in the same directory.
MultiTransferSpec == MultiTransferInit /\ [][MultiTransferNext]_vars

\* ------------------------------------------------------ handleMessageUpload
\* The handler from `await interaction.deferReply(...)` on: it awaits the
\* dispatcher with its onProgress callback, then edits the reply with the
\* result or, in its catch block, with the failure.

\* const percentage = Math.floor((uploaded / total) * 100)
Percentage(uploaded, total) == (uploaded * 100) \div total

\* const filled = Math.floor(percentage / 10)
Filled(percentage) == percentage \div 10

MessageUploadInit ==
    /\ \E t \in 1..MaxThreshold : dispatch = [NoDispatch EXCEPT !.threshold = t]
    /\ route = "none"
    /\ openStreams = 0
    /\ CHUNK_SIZE \in 1..MaxChunkSize
    /\ contentLength = 0
    /\ trueLength \in 0..MaxReplyLen
    /\ streamPos = 0
    /\ largestFragment = 0
    /\ done = FALSE
    /\ accumulatedChunks = <<>>
    /\ accumulatedLen = 0
    /\ buffer = <<>>
    /\ sending = <<>>
    /\ uploadedBytes = 0
    /\ partialIdentifier = NoId
    /\ staged = {}
    /\ released = <<>>
    /\ requests = <<>>
    /\ responses = <<>>
    /\ progress = <<>>
    /\ result = Result("none", NoResponse, "")
    /\ pc = "dispatch"
    /\ edits = <<>>
    /\ applied = <<>>
    /\ handled = 0
    /\ lastUpdate = 0
    /\ handlerPc = "upload"
    /\ StagingIdle
    /\ CommandsIdle

\* Edits issued whose request has not settled yet.
PendingEdits == {i \in 1..Len(edits) : \A k \in 1..Len(applied) : applied[k].edit # i}

\* The body of the callback has run for every call made at line 405: the
\* call is not awaited, but the body runs synchronously up to its first await.
CallbackRan == handled = Len(progress)

\* The body of onProgress for the call progress[handled + 1], up to its await.
\*   recent : now - lastUpdate < 3000 (lastUpdate is 0 before the first update,
\*            so the first call is never recent)
OnProgressCallback(recent) ==
    /\ handled < Len(progress)
    /\ recent => lastUpdate # 0
    /\ handled' = handled + 1
    /\ LET uploaded == progress[handled + 1][1]
           total == progress[handled + 1][2]
       IN  IF recent /\ uploaded < total
             THEN UNCHANGED <<lastUpdate, edits>>
             ELSE /\ lastUpdate' = 1
                  /\ edits' = IF Filled(Percentage(uploaded, total)) > 10
                                THEN edits   \* '░'.repeat(10 - filled) throws
                                ELSE Append(edits, "progress")
    /\ UNCHANGED <<applied, handlerPc, transferVars, stagingVars, commandVars>>

\* The dispatcher has returned or thrown: the handler issues its final edit
\* (the result embed, or `Upload failed` in the catch block) and awaits it.
FinalEdit ==
    /\ handlerPc = "upload"
    /\ pc \in {"returned", "thrown"}
    /\ CallbackRan
    /\ edits' = Append(edits, IF pc = "returned" THEN "result" ELSE "failure")
    /\ handlerPc' = "final"
    /\ UNCHANGED <<applied, handled, lastUpdate, transferVars, stagingVars, commandVars>>

\* The request of edit i settles: it takes effect on the reply, or it is
\* rejected.  A rejected progress edit is ignored; the awaited final edit lets
\* the handler return, or, rejected in the try block, leads to the catch block.
EditSettles(i, ok) ==
    /\ i \in PendingEdits
    /\ applied' = Append(applied, [edit |-> i, ok |-> ok])
    /\ IF edits[i] = "progress"
         THEN UNCHANGED <<edits, handlerPc>>
         ELSE IF edits[i] = "result" /\ ~ok
         THEN /\ edits' = Append(edits, "failure")
              /\ UNCHANGED handlerPc
         ELSE /\ handlerPc' = "done"
              /\ UNCHANGED edits
    /\ UNCHANGED <<handled, lastUpdate, transferVars, stagingVars, commandVars>>

MessageUploadNext ==
    \/ /\ CallbackRan
       /\ pc = "dispatch"
       /\ \E anon, configured, headOk \in BOOLEAN, head, get \in Headers,
             getOutcome \in {"reject", "notok", "ok"} :
             Dispatch(anon, configured, headOk, head, getOutcome, get)
    \/ CallbackRan /\ EnterPartialUpload
    \/ CallbackRan /\ SingleShotUpload
    \/ CallbackRan /\ Fetch
    \/ CallbackRan /\ IteratorNextValue
    \/ CallbackRan /\ IteratorNextDone
    \/ CallbackRan /\ IteratorNextError
    \/ CallbackRan /\ OuterLoop
    \/ CallbackRan /\ InnerLoopSend
    \/ CallbackRan /\ InnerLoopWriteFail
    \/ CallbackRan /\ InnerLoopExit
    \/ CallbackRan /\ Response
    \/ \E recent \in BOOLEAN : OnProgressCallback(recent)
    \/ FinalEdit
    \/ \E i \in 1..(MaxReplyLen + 2), ok \in BOOLEAN : EditSettles(i, ok)

\* A message-command upload from the deferred reply on.
MessageUploadSpec == MessageUploadInit /\ [][MessageUploadNext]_vars

\* ------------------------------------------------- execute: /zipline commands
\* The slash commands that read or write the stored tokens and the bot user
\* ids, issued by any users and interleaved at their awaits.  A command is
\*   [user, sub, pc, token, reply, requests]
\* with token the value of `const token = getUserToken(userId)` (line 848) and
\* requests the requests it has made to the file-hosting service.
Tokens == {"tok"}

Subcommands == {"settoken", "logout", "me", "list", "upload", "stats"}

\* function getUserToken(userId) { return userTokens[userId] || null; }
GetUserToken(tokens, u) == tokens[u]

\* (existing.length ? Math.max(...existing) : 0): the largest id assigned.
MaxBotUserId(ids) ==
    CHOOSE m \in {ids[u] : u \in Users} \cup {0} :
        \A u \in Users : ids[u] <= m

\* Variant of EnsureAssignBotUserId that assigns a new id on every call.
ReassignBotUserId(ids, u) == [ids EXCEPT ![u] = MaxBotUserId(ids) + 1]

\* function ensureAssignBotUserId(discordUserId): userIds after the call.
EnsureAssignBotUserId(ids, u) ==
    IF ids[u] # 0 THEN ids ELSE [ids EXCEPT ![u] = MaxBotUserId(ids) + 1]

\* Variant of RequiresToken that lets upload pass without a token.
RequiresTokenButUpload(sub) == sub \in {"me", "list", "stats"}

\* ['me', 'list', 'upload', 'stats'].includes(sub)
RequiresToken(sub) == sub \in {"me", "list", "upload", "stats"}

\* The ids userIds.json can hold when the module is loaded: 1 .. k given to k
\* of the users, in any order (ids are assigned as max + 1 and never removed).
LoadedUserIds ==
    { ids \in [Users -> 0..Cardinality(Users)] :
        /\ \A u, v \in Users : (u # v /\ ids[u] # 0) => ids[u] # ids[v]
        /\ \A k \in 1..Cardinality(Users) :
              (\E u \in Users : ids[u] = k) =>
                  \A j \in 1..k : \E v \in Users : ids[v] = j }

\* The state after the module is loaded: every user with a stored token has
\* an id (lines 94-101); no command has been issued.
CommandInit ==
    /\ dispatch = NoDispatch
    /\ route = "Chunked"
    /\ openStreams = 1
    /\ CHUNK_SIZE = 1
    /\ contentLength = 1
    /\ trueLength = 0
    /\ streamPos = 0
    /\ largestFragment = 0
    /\ done = FALSE
    /\ accumulatedChunks = <<>>
    /\ accumulatedLen = 0
    /\ buffer = <<>>
    /\ sending = <<>>
    /\ uploadedBytes = 0
    /\ partialIdentifier = NoId
    /\ staged = {}
    /\ released = <<>>
    /\ requests = <<>>
    /\ responses = <<>>
    /\ progress = <<>>
    /\ result = Result("none", NoResponse, "")
    /\ pc = "fetch"
    /\ ReplyIdle
    /\ StagingIdle
    /\ userIds \in LoadedUserIds
    /\ userTokens \in [Users -> Tokens \cup {NoToken}]
    /\ \A u \in Users : userTokens[u] # NoToken => userIds[u] # 0
    /\ commands = <<>>

Command(u, sub, at, token, reply, reqs) ==
    [user |-> u, sub |-> sub, pc |-> at, token |-> token, reply |-> reply,
     requests |-> reqs]

\* A command ends with a reply, having made the requests reqs.
Ends(i, reply, reqs) ==
    commands' = [commands EXCEPT ![i].pc = "done", ![i].reply = reply,
                                 ![i].requests = @ \cup reqs]

\* execute(interaction) from its call to its first await (or its return):
\*   settoken : await interaction.deferReply, then validateZiplineToken
\*   logout   : deleteUserToken(userId) and the reply; saved tells whether
\*              saveTokens() wrote the file (the entry is deleted either way)
\*   me, list, upload, stats : the token gate of lines 848-856, then the
\*              first await of the subcommand
IssueCommand(u, sub, saved) ==
    /\ Len(commands) < MaxCommands
    /\ IF sub = "settoken"
         THEN /\ commands' = Append(commands, Command(u, sub, "validate", NoToken, "", {}))
              /\ UNCHANGED userTokens
         ELSE IF sub = "logout"
         THEN /\ userTokens' = [userTokens EXCEPT ![u] = NoToken]
              /\ commands' = Append(commands,
                    Command(u, sub, "done", NoToken,
                            IF saved THEN "loggedOut" ELSE "error", {}))
         ELSE /\ UNCHANGED userTokens
              /\ commands' = Append(commands,
                    IF GetUserToken(userTokens, u) = NoToken /\ RequiresToken(sub)
                      THEN Command(u, sub, "done", NoToken, "setTokenPrompt", {})
                      ELSE Command(u, sub, sub, GetUserToken(userTokens, u), "", {}))
    /\ UNCHANGED <<userIds, transferVars, replyVars, stagingVars>>

\* settoken after `await validateZiplineToken(token)`: a valid token is stored
\* and the user gets a bot user id; savedTokens / savedIds tell whether
\* saveTokens() / saveIds() wrote their file (the entry is set either way, and
\* a failed write throws into the catch block of execute).
SetTokenValidated(i, token, valid, savedTokens, savedIds) ==
    /\ i \in 1..Len(commands)
    /\ commands[i].pc = "validate"
    /\ IF ~valid
         THEN /\ Ends(i, "invalidToken", {"user"})
              /\ UNCHANGED <<userTokens, userIds>>
         ELSE /\ userTokens' = [userTokens EXCEPT ![commands[i].user] = token]
              /\ IF ~savedTokens
                   THEN /\ Ends(i, "error", {"user"})
                        /\ UNCHANGED userIds
                   ELSE /\ userIds' = EnsureAssignBotUserId(userIds, commands[i].user)
                        /\ Ends(i, IF savedIds \/ userIds[commands[i].user] # 0
                                     THEN "tokenSaved" ELSE "error", {"user"})
    /\ UNCHANGED <<transferVars, replyVars, stagingVars>>

\* me after `await ziplineGetMe(token)`:
\* const botUserId = getBotUserId(userId) || ensureAssignBotUserId(userId)
MeGotUser(i, ok, savedIds) ==
    /\ i \in 1..Len(commands)
    /\ commands[i].pc = "me"
    /\ IF ~ok
         THEN /\ Ends(i, "error", {"user"})
              /\ UNCHANGED userIds
         ELSE /\ userIds' = EnsureAssignBotUserId(userIds, commands[i].user)
              /\ Ends(i, IF savedIds \/ userIds[commands[i].user] # 0
                           THEN "account" ELSE "error", {"user", "stats"})
    /\ UNCHANGED <<userTokens, transferVars, replyVars, stagingVars>>

\* list after `await ziplineFetchAllUserUploads(token)`; stats after
\* ziplineGetStats() and ziplineGetMe(token).
ListOrStatsReplies(i, ok) ==
    /\ i \in 1..Len(commands)
    /\ commands[i].pc \in {"list", "stats"}
    /\ IF commands[i].pc = "list"
         THEN Ends(i, IF ok THEN "uploads" ELSE "error", {"files"})
         ELSE Ends(i, "stats", {"stats", "user"})
    /\ UNCHANGED <<userTokens, userIds, transferVars, replyVars, stagingVars>>

\* upload after `await interaction.deferReply(...)`:
\* const userToken = getUserToken(userId) is read again, and the file goes to
\* ziplineUploadFromUrl or, without a token, to ziplineAnonUploadFromUrl
\* (which throws before any request when no guest instance is configured).
UploadDeferred(i, ok, guestConfigured) ==
    /\ i \in 1..Len(commands)
    /\ commands[i].pc = "upload"
    /\ IF GetUserToken(userTokens, commands[i].user) # NoToken
         THEN Ends(i, IF ok THEN "uploaded" ELSE "error", {"upload"})
         ELSE IF guestConfigured
         THEN Ends(i, IF ok THEN "guestUploaded" ELSE "error", {"guestUpload"})
         ELSE Ends(i, "error", {})
    /\ UNCHANGED <<userTokens, userIds, transferVars, replyVars, stagingVars>>

CommandNext ==
    \/ \E u \in Users, sub \in Subcommands, saved \in BOOLEAN : IssueCommand(u, sub, saved)
    \/ \E i \in 1..MaxCommands, token \in Tokens, valid, savedTokens, savedIds \in BOOLEAN :
          SetTokenValidated(i, token, valid, savedTokens, savedIds)
    \/ \E i \in 1..MaxCommands, ok, savedIds \in BOOLEAN : MeGotUser(i, ok, savedIds)
    \/ \E i \in 1..MaxCommands, ok \in BOOLEAN : ListOrStatsReplies(i, ok)
    \/ \E i \in 1..MaxCommands, ok, guestConfigured \in BOOLEAN :
          UploadDeferred(i, ok, guestConfigured)

\* /zipline commands of several users, interleaved.
CommandSpec == CommandInit /\ [][CommandNext]_vars

\* ================================================================ properties
Last(seq) == seq[Len(seq)]

\* Bytes held by the re-chunking buffer and not yet sliced into a chunk.
Buffered == Len(BufferConcat(accumulatedChunks)) + Len(buffer)

\* A chunk response after which the loop goes on to the next chunk.
IsAck(resp) == ResOk(resp.status) /\ ~HasFiles(resp) /\ ~resp.partialSuccessFalse

AllAcks == \A i \in 1..Len(responses) : IsAck(responses[i])

\* The transfer read the stream to its end and left by `return { partialSuccess: true }`.
Exhausted == pc = "returned" /\ result.kind = "partialSuccessTrue"

LastChunkRequests == { i \in 1..Len(requests) : requests[i].lastchunk }

Ceil(a, b) == (a + b - 1) \div b

\* The i-th chunk of a stream of trueLength bytes cut every CHUNK_SIZE bytes.
ExpectedChunk(i) ==
    [k \in 1..(Min(i * CHUNK_SIZE, trueLength) - (i - 1) * CHUNK_SIZE)
        |-> (i - 1) * CHUNK_SIZE + k - 1]

\* C1: a chunk request carries last-chunk = true if and only if, when it is
\* sent, the stream has been observed exhausted and no bytes remain buffered
\* after that chunk (whatever the declared length).
C1_LastChunkIffExhausted ==
    pc = "sending" => (Last(requests).lastchunk <=> (done /\ Buffered = 0))

\* C2: a transfer that read the stream (true length >= 1) to exhaustion with
\* only acknowledgements has exactly one request with last-chunk = true, and it
\* is the final request.
C2_ExactlyOneLastChunk ==
    (Exhausted /\ AllAcks /\ trueLength >= 1) =>
        LastChunkRequests = {Len(requests)}

\* C3: when the declared length differs from the true length, the total length
\* in the headers of the final chunk request is the number of bytes transmitted.
C3_FinalTotalIsTrueLength ==
    (Exhausted /\ contentLength # trueLength /\ Len(requests) >= 1) =>
        /\ Last(requests).rangeTotal = Last(requests).rangeStart + Len(Last(requests).data)
        /\ Last(requests).pContentLength = trueLength
        /\ Last(requests).rangeTotal = trueLength

\* C4: the transfer returns normally only with a server response that holds a
\* non-empty files list.
C4_ReturnOnlyCompleted ==
    pc = "returned" => (result.kind = "response" /\ HasFiles(result.resp))

\* C5: once a success response holds a non-empty files list, the transfer has
\* stopped: that request is the last one sent, no chunk file is staged, and the
\* value returned is exactly that response.
C5_CompletedStopsAndReturns ==
    \A i \in 1..Len(responses) :
        (ResOk(responses[i].status) /\ HasFiles(responses[i])) =>
            /\ i = Len(requests)
            /\ pc = "returned"
            /\ result = Result("response", responses[i], "")

\* C6: the requests sent are, in order, the chunks of the stream cut every
\* CHUNK_SIZE bytes (all of size CHUNK_SIZE but possibly the last), whatever the
\* fragmentation; a transfer that ran to exhaustion sent ceil(L/C) of them.
C6_ChunkSequence ==
    /\ \A i \in 1..Len(requests) : requests[i].data = ExpectedChunk(i)
    /\ (Exhausted /\ trueLength >= 1) =>
          /\ Len(requests) = Ceil(trueLength, CHUNK_SIZE)
          /\ \A i \in 1..(Len(requests) - 1) : Len(requests[i].data) = CHUNK_SIZE
          /\ Len(Last(requests).data) =
                IF trueLength % CHUNK_SIZE = 0 THEN CHUNK_SIZE
                                               ELSE trueLength % CHUNK_SIZE

\* A transfer of a stream that is no multiple of the chunk size, delivered in
\* fragments larger than a chunk, ran to exhaustion.
C6_Witness ==
    /\ Exhausted
    /\ Len(requests) >= 2
    /\ trueLength % CHUNK_SIZE # 0
    /\ largestFragment > CHUNK_SIZE

\* C7 (as stated): the unconsumed bytes of the re-chunking buffer never exceed
\* 2 * CHUNK_SIZE, for any fragment sizes.
C7_BufferAtMostTwoChunks == Buffered <= 2 * CHUNK_SIZE

\* C7 (amended): the unconsumed bytes never exceed CHUNK_SIZE - 1 plus the size
\* of the largest fragment read; so they stay below 2 * CHUNK_SIZE as long as no
\* fragment is larger than CHUNK_SIZE.
C7_BufferBound ==
    /\ Buffered <= (CHUNK_SIZE - 1) + largestFragment
    /\ largestFragment <= CHUNK_SIZE => Buffered < 2 * CHUNK_SIZE

\* The buffer holds the bound exactly: CHUNK_SIZE - 1 bytes were left over and a
\* fragment of the largest size arrived.
C7_Witness ==
    /\ CHUNK_SIZE >= 2
    /\ largestFragment >= 2
    /\ Buffered = (CHUNK_SIZE - 1) + largestFragment

\* C8: once a request carries a session identifier, every later request
\* carries the same identifier.
C8_IdentifierUnchanged ==
    \A i, j \in 1..Len(requests) :
        (i < j /\ requests[i].identifier # NoId) =>
            requests[j].identifier = requests[i].identifier

\* C9: the first request carries no identifier header, and a request carries
\* one exactly when an earlier response of the transfer assigned one.
C9_IdentifierHeaderPresence ==
    \A j \in 1..Len(requests) :
        /\ j = 1 => requests[j].identifier = NoId
        /\ requests[j].identifier # NoId <=>
              \E i \in 1..(j - 1) : responses[i].partialIdentifier # NoId

\* A third request carries an identifier that the second response assigned,
\* the first response having assigned none.
C9_Witness ==
    /\ Len(requests) >= 3
    /\ requests[2].identifier = NoId
    /\ requests[3].identifier # NoId

\* C10: the byte ranges of the requests are contiguous and increasing: the
\* first starts at 0, each covers exactly the bytes it carries, and each starts
\* one byte after the end of the previous one.
C10_ContiguousRanges ==
    /\ Len(requests) >= 1 => requests[1].rangeStart = 0
    /\ \A j \in 1..Len(requests) :
          /\ requests[j].rangeEnd = requests[j].rangeStart + Len(requests[j].data) - 1
          /\ requests[j].rangeStart = requests[j].data[1]
          /\ requests[j].rangeEnd = Last(requests[j].data)
          /\ j > 1 => requests[j].rangeStart = requests[j - 1].rangeEnd + 1
    /\ pc = "sending" => Last(requests).rangeStart = uploadedBytes

\* Three requests were sent, cut from a stream whose fragments span chunks.
C10_Witness ==
    /\ Len(requests) >= 3
    /\ largestFragment > CHUNK_SIZE

\* ------------------------------------------------------------ C11 .. C18
\* A request whose outcome is not yet known.
InFlight == Len(requests) - Len(responses)

\* A request that got no response or a response with a non-2xx status.
Failed(resp) == resp.status < 200 \/ resp.status > 299

\* A success response that says partialSuccess = false and holds no files.
SaysPartialFailure(resp) == ~Failed(resp) /\ resp.files = 0 /\ resp.partialSuccessFalse

\* A success response after which the next chunk is due.
Acknowledged(resp) == ~Failed(resp) /\ resp.files = 0 /\ ~resp.partialSuccessFalse

RECURSIVE AckedBytesUpTo(_)
AckedBytesUpTo(n) ==
    IF n = 0 THEN 0
    ELSE AckedBytesUpTo(n - 1)
         + (IF Acknowledged(responses[n]) THEN Len(requests[n].data) ELSE 0)

\* Sum of the sizes of the chunks whose requests were acknowledged.
AckedBytes == AckedBytesUpTo(Len(responses))

\* How often fs.unlinkSync removed the staged file n.
TimesReleased(n) == Cardinality({k \in 1..Len(released) : released[k] = n})

\* Unread or buffered bytes are left: another chunk would be due.
MoreToSend == streamPos < trueLength \/ Buffered > 0

\* C11: at most one chunk request is in flight, exactly while the loop waits
\* for its outcome, and a chunk is staged only after the outcome of the
\* previous request is known.
C11_OneInFlight ==
    /\ InFlight \in {0, 1}
    /\ InFlight = 1 <=> pc = "sending"
    /\ \A n \in staged : n <= Len(responses) + 1

\* The second request is in flight, the first one having been answered.
C11_Witness == pc = "sending" /\ Len(requests) >= 2 /\ Len(responses) = Len(requests) - 1

\* C12: uploadedBytes never decreases, is never ahead of the acknowledged
\* chunks, equals the sum of their sizes while the transfer runs and when it
\* returns, and moves only when an acknowledgement arrives, by the size of the
\* acknowledged chunk.
C12_UploadedBytesFollowsAcks ==
    /\ [](/\ uploadedBytes <= AckedBytes
          /\ pc # "thrown" => uploadedBytes = AckedBytes)
    /\ [][/\ uploadedBytes' >= uploadedBytes
          /\ uploadedBytes' # uploadedBytes =>
                /\ Len(responses') = Len(responses) + 1
                /\ Acknowledged(Last(responses'))
                /\ uploadedBytes' = uploadedBytes + Len(Last(requests).data)]_vars

\* The first chunk was acknowledged and counted, the second request failed or
\* was answered partialSuccess = false and was not counted.
C12_Witness ==
    /\ Len(responses) = 2
    /\ ~Acknowledged(responses[2])
    /\ uploadedBytes = Len(requests[1].data)
    /\ uploadedBytes > 0

\* C13: after a success response that says partialSuccess = false (and holds no
\* files) the transfer has ended with an error and that request is the last
\* one: no later chunk is staged or sent.
C13_PartialFailureAborts ==
    \A i \in 1..Len(responses) :
        SaysPartialFailure(responses[i]) =>
            /\ i = Len(requests)
            /\ pc = "thrown"
            /\ result.kind = "error"
            /\ staged \subseteq {i}

\* The second chunk was answered partialSuccess = false while more was to send.
C13_Witness ==
    /\ Len(responses) = 2
    /\ SaysPartialFailure(responses[2])
    /\ MoreToSend

\* C14: a response with a non-2xx status ends the transfer with an error that
\* carries the status and the raw body, whatever the body holds; the session
\* identifier and uploadedBytes are left as they were when the request was sent.
C14_Non2xxIsTransferError ==
    \A i \in 1..Len(responses) :
        (Failed(responses[i]) /\ responses[i].status # 0) =>
            /\ i = Len(requests)
            /\ pc = "thrown"
            /\ result = Result("error", responses[i], "chunk")
            /\ partialIdentifier = requests[i].identifier
            /\ uploadedBytes = requests[i].rangeStart

\* C15: a failed chunk request is the last request of the transfer, which has
\* ended with an error; no byte is sent in two requests and none is skipped.
C15_FailedChunkAborts ==
    /\ \A i \in 1..Len(responses) :
          Failed(responses[i]) =>
              /\ i = Len(requests)
              /\ pc = "thrown"
              /\ result.kind = "error"
    /\ \A i, j \in 1..Len(requests) :
          i < j => requests[i].rangeEnd < requests[j].rangeStart
    /\ \A j \in 1..Len(requests) : requests[j].data = ExpectedChunk(j)

\* The second request failed while more was to send.
C15_Witness ==
    /\ Len(responses) = 2
    /\ Failed(responses[2])
    /\ MoreToSend

\* C16: once the transfer has returned or thrown, no staged chunk file of it
\* is left.
C16_NoResidueAfterEnd == pc \in {"returned", "thrown"} => staged = {}

C18_DeleteFailureNotFatal ==
    (pc = "thrown" /\ result.error = "unlink") =>
        /\ Len(responses) >= 1
        /\ Failed(Last(responses)) \/ SaysPartialFailure(Last(responses))

\* ------------------------------------------------------------ C19, C20
\* A content-length header that tells a length: present, a number, not zero.
TellsLength(h) == h.kind = "number" /\ h.n # 0

\* The length the source tells: that of the HEAD response, or else of the GET.
KnownLength(head, get) ==
    IF TellsLength(head) THEN head.n ELSE IF TellsLength(get) THEN get.n ELSE 0

\* C19: the dispatcher routes to the chunked path exactly when a length is
\* known (from HEAD, or else from GET) and is >= the threshold, and passes that
\* length on; a transfer routed single-shot never enters ziplinePartialUpload.
C19_RouteByKnownLength ==
    /\ pc = "routed" =>
          /\ route = "Chunked" <=>
                /\ KnownLength(dispatch.head, dispatch.get) # 0
                /\ KnownLength(dispatch.head, dispatch.get) >= dispatch.threshold
          /\ route = "Chunked" =>
                dispatch.length = KnownLength(dispatch.head, dispatch.get)
    /\ route = "SingleShot" =>
          /\ pc \in {"routed", "returned", "thrown"}
          /\ requests = <<>>
          /\ result.kind \notin {"response", "partialSuccessTrue"}
    /\ pc \notin {"dispatch", "routed", "returned", "thrown"} =>
          route = "Chunked" /\ contentLength >= 1

\* The HEAD response tells no length and the GET response tells one equal to
\* the threshold: the transfer is routed to the chunked path.
C19_Witness ==
    /\ pc = "routed"
    /\ ~TellsLength(dispatch.head)
    /\ TellsLength(dispatch.get)
    /\ dispatch.get.n = dispatch.threshold
    /\ route = "Chunked"

\* C20: a transfer never has more than one download stream of the source that
\* is opened and not yet consumed or closed.
C20_OneDownloadStream == openStreams <= 1

\* ------------------------------------------------------------ C22 .. C29
\* C22: onProgress is called at most once per chunk, the k-th call for the
\* k-th chunk and only when its request was acknowledged and uploadedBytes
\* advanced, with (uploadedBytes, declared length); the first arguments of
\* successive calls increase strictly; no call is made for a failed request.
C22_ProgressAfterAck ==
    /\ [](/\ Len(progress) <= Len(responses)
          /\ \A k \in 1..Len(progress) :
                /\ Acknowledged(responses[k])
                /\ progress[k] = <<requests[k].rangeEnd + 1, contentLength>>
                /\ k > 1 => progress[k][1] > progress[k - 1][1])
    /\ [][progress' # progress =>
             /\ Len(responses') = Len(responses) + 1
             /\ Acknowledged(Last(responses'))
             /\ uploadedBytes' > uploadedBytes
             /\ progress' = Append(progress, <<uploadedBytes', contentLength>>)]_vars

\* Two chunks were acknowledged and reported, the third request failed and was
\* not reported.
C22_Witness ==
    /\ Len(responses) = 3
    /\ Failed(responses[3])
    /\ Len(progress) = 2
    /\ progress[2][1] # contentLength

\* C23: a transfer of an empty stream (true length 0) that ran to exhaustion
\* made exactly one chunk request.
C23_EmptyStreamOneChunk == (Exhausted /\ trueLength = 0) => Len(requests) = 1

\* The declared length is the true length, a multiple k * CHUNK_SIZE with k >= 1.
DeclaredExactMultiple ==
    contentLength = trueLength /\ trueLength >= 1 /\ trueLength % CHUNK_SIZE = 0

\* C24: when the declared length is the true length L = k * CHUNK_SIZE, every
\* request carries a full chunk and the declared length as total, last-chunk =
\* true is on the k-th request only, no more than k requests are sent, and a
\* transfer that ran to exhaustion sent exactly k; whatever the fragmentation.
C24_ExactMultipleDeclared ==
    DeclaredExactMultiple =>
        /\ Len(requests) <= trueLength \div CHUNK_SIZE
        /\ \A i \in 1..Len(requests) :
              /\ Len(requests[i].data) = CHUNK_SIZE
              /\ requests[i].lastchunk <=> i = trueLength \div CHUNK_SIZE
              /\ requests[i].rangeTotal = contentLength
              /\ requests[i].pContentLength = contentLength
        /\ Exhausted => Len(requests) = trueLength \div CHUNK_SIZE

\* A stream of two chunks of two bytes, declared as such and delivered as a
\* fragment of three bytes and one of one byte, was sent to exhaustion.
C24_Witness ==
    /\ DeclaredExactMultiple
    /\ Exhausted
    /\ CHUNK_SIZE = 2
    /\ Len(requests) = 2
    /\ largestFragment = 3

\* The true length is no multiple of CHUNK_SIZE and the declared length is larger.
DeclaredTooLarge == trueLength % CHUNK_SIZE # 0 /\ contentLength > trueLength

\* C25: when the true length L is no multiple of CHUNK_SIZE and the declared
\* length is larger than L, a request with an undersized chunk is the final one
\* and carries total length L and last-chunk = true, and every request with a
\* full chunk carries the declared length and last-chunk = false.
C25_UndersizedFinalCorrected ==
    DeclaredTooLarge =>
        /\ \A i \in 1..Len(requests) :
              IF Len(requests[i].data) < CHUNK_SIZE
                THEN /\ i = Ceil(trueLength, CHUNK_SIZE)
                     /\ requests[i].rangeTotal = trueLength
                     /\ requests[i].pContentLength = trueLength
                     /\ requests[i].lastchunk
                ELSE /\ i < Ceil(trueLength, CHUNK_SIZE)
                     /\ requests[i].rangeTotal = contentLength
                     /\ requests[i].pContentLength = contentLength
                     /\ ~requests[i].lastchunk
        /\ Exhausted => /\ Len(requests) = Ceil(trueLength, CHUNK_SIZE)
                        /\ Len(Last(requests).data) < CHUNK_SIZE

\* A stream of three bytes declared longer was sent in chunks of two bytes.
C25_Witness ==
    /\ DeclaredTooLarge
    /\ Exhausted
    /\ Len(requests) = 2
    /\ Last(requests).rangeTotal = 3
    /\ requests[1].rangeTotal = contentLength

\* Chunk requests that were answered with a success status.
SuccessResponses == { i \in 1..Len(responses) : ~Failed(responses[i]) }

\* C26: onProgress has been called once for every chunk request answered with a
\* success status, the response that completes the transfer (non-empty files
\* list) included.
C26_ProgressPerSuccess == Len(progress) = Cardinality(SuccessResponses)

\* C27: in every chunk request the end index of Content-Range is strictly less
\* than the total length of the same header.
C27_RangeEndBelowTotal ==
    \A j \in 1..Len(requests) : requests[j].rangeEnd < requests[j].rangeTotal

\* A success response of none of the three recognised shapes.
Unrecognised(resp) ==
    /\ ~Failed(resp)
    /\ resp.files = 0
    /\ resp.partialIdentifier = NoId
    /\ ~resp.partialSuccessFalse

\* C28: a success response of none of the recognised shapes is an
\* acknowledgement: in the step that receives it the session identifier is
\* left unchanged, uploadedBytes advances by the size of the chunk, and the
\* loop goes on to the next chunk.
C28_UnrecognisedIsAck ==
    [][(Len(responses') = Len(responses) + 1 /\ Unrecognised(Last(responses'))) =>
          /\ partialIdentifier' = partialIdentifier
          /\ uploadedBytes' = uploadedBytes + Len(Last(requests).data)
          /\ pc' = "inner"]_vars

\* C29: in every call of onProgress the bytes sent are at most the total.
C29_ProgressWithinTotal ==
    \A k \in 1..Len(progress) : progress[k][1] <= progress[k][2]

\* ------------------------------------------------------------ C21
\* C21: two transfers that each have a staged chunk in use never have it under
\* the same name, and the staged file of a transfer in use is there and holds
\* what that transfer wrote: no other transfer has overwritten or deleted it.
C21_StagingNamesUnique ==
    /\ \A t1, t2 \in Transfers :
          (t1 # t2 /\ staging[t1].pc = "sending" /\ staging[t2].pc = "sending") =>
              staging[t1].path # staging[t2].path
    /\ \A t \in Transfers :
          staging[t].pc = "sending" => [path |-> staging[t].path, owner |-> t] \in disk

\* ------------------------------------------------------------ C30
\* C30: the final edit of the reply (result or failure) is the last edit: no
\* progress edit is issued after a final edit was issued, none is still to
\* settle once a final edit is issued, and none takes effect after a final
\* edit took effect.
C30_FinalEditLast ==
    /\ \A i, j \in 1..Len(edits) :
          (i < j /\ edits[i] # "progress") => edits[j] # "progress"
    /\ \A i \in PendingEdits :
          edits[i] = "progress" => \A j \in 1..Len(edits) : edits[j] = "progress"
    /\ \A a, b \in 1..Len(applied) :
          (a < b /\ applied[a].ok /\ applied[b].ok
                 /\ edits[applied[a].edit] # "progress") =>
              edits[applied[b].edit] # "progress"

\* ------------------------------------------------------------ C31, C32
\* C31: no two users ever hold the same bot user id, and a user's id, once
\* assigned, never changes, whatever settoken, logout and me commands run.
C31_BotUserIdsStableUnique ==
    /\ [](\A u, v \in Users : (u # v /\ userIds[u] # 0) => userIds[u] # userIds[v])
    /\ [][\A u \in Users : userIds[u] # 0 => userIds'[u] = userIds[u]]_vars

\* A user who held an id logged out and set a token again, and both users
\* hold an id.
C31_Witness ==
    /\ Len(commands) = 2
    /\ commands[2].user = commands[1].user
    /\ commands[1].sub = "logout"
    /\ commands[2].sub = "settoken" /\ commands[2].reply = "tokenSaved"
    /\ \A u \in Users : userIds[u] # 0

\* C32: a me, list, upload or stats command of a user who has no stored token
\* when it is handled has ended with the set-token prompt and has made no
\* request to the file-hosting service, a guest upload included.
C32_NoTokenNoRequest ==
    \A i \in 1..Len(commands) :
        (commands[i].sub \in {"me", "list", "upload", "stats"}
           /\ commands[i].token = NoToken) =>
            /\ commands[i].pc = "done"
            /\ commands[i].reply = "setTokenPrompt"
            /\ commands[i].requests = {}

\* The upload of a user without a token got the prompt after the upload of a
\* user with a token went through.
C32_Witness ==
    /\ Len(commands) = 2
    /\ commands[1].sub = "upload" /\ commands[1].reply = "uploaded"
    /\ commands[2].sub = "upload" /\ commands[2].token = NoToken
    /\ commands[2].reply = "setTokenPrompt"

====
